---- MODULE Spec2Model ----
(***************************************************************************)
(* F95API: the thread/post retrieval pipeline (Thread.fetch, fetchPosts,   *)
(* setMaximumPostsForPage, parsePostsInPage) together with the network     *)
(* helper it calls (fetchHTML, fetchGETResponse).                          *)
(*                                                                         *)
(* One behaviour is one run of Thread.fetch on one Thread object.  The     *)
(* platform is the environment: it answers every outstanding request with  *)
(* a transport failure or a response, in any order.  JavaScript runs each  *)
(* continuation to completion, so a settled request is delivered only      *)
(* while the run is suspended at an await.                                 *)
(*                                                                         *)
(* The search queries (SearchQuery, HandiworkSearchQuery), the search of   *)
(* result URLs (fetchResultURLs) and Post.fetch have a specification each  *)
(* (SpecQuery, SpecSearch, SpecPost): one behaviour is one call, and the   *)
(* variables of the other components stay at rest.  So have the metadata   *)
(* step of Thread.fetch with parseRating (SpecMetadata), one call of       *)
(* fetchHTML or fetchGETResponse on any response of the HTTP client        *)
(* (SpecNet), and authenticate and getF95Token called by several callers   *)
(* at once (SpecAuth).                                                     *)
(***************************************************************************)
EXTENDS Integers, Sequences, FiniteSets, Bags, TLC

\* Largest page count the first page of a thread announces.
MaxPages == 3
\* Post IDs found in the pages are drawn from 1..MaxPostId.
MaxPostId == 2
\* Largest number of posts on one page.
MaxPageLen == 1
\* Longest list of tags (and of included tags) a query is built with.
MaxTagCount == 6
\* Longest list of prefixes a query is built with.
MaxPrefixCount == 1
\* createURL frames the call stack holds before the engine raises RangeError.
StackLimit == 3
\* Largest number of posts on the page a single post is fetched from.
MaxPostPageLen == 2
\* Largest number of entries on a search result page.
MaxResults == 31
\* Largest limit a search is called with.
MaxLimit == 3
\* Largest number of votes a rating counts.
MaxRatingCount == 2
\* Number of callers that authenticate at the same time.
MaxCallers == 2

VARIABLES
    token,            \* Shared.session.token
    pc,               \* position of the Thread.fetch run
    requests,         \* every network request issued so far, in issue order
    htmlResponse,     \* Thread.fetch: result of the first-page fetchHTML
    postResponse,     \* setMaximumPostsForPage: result of fetchPOSTResponse
    pages,            \* Thread.fetch: parseInt of the last-page indicator
    i,                \* fetchPosts: counter of the fan-out loop
    htmlPromiseList,  \* fetchPosts: the promises pushed by the fan-out loop
    responses,        \* fetchPosts: what Promise.all resolved with
    k,                \* fetchPosts: position of the scrape loop in responses
    fetchedPosts,     \* fetchPosts: local accumulator of parsed posts
    posts,            \* Thread._posts
    rating,           \* Thread._rating has been assigned
    thrown,           \* the value Thread.fetch rejected with
    firstSettled,     \* index of the page fetch that settled first (0: none yet)
    \* a search query object and one call of one of its methods
    query,            \* the fields of the query object
    qpc,              \* position of the call
    qop,              \* the method called and the variant asked of cast<T>()
    qret,             \* what the call returned or threw
    depth,            \* createURL frames on the call stack
    \* one call of fetchResultURLs
    spc,              \* position of the call
    slimit,           \* the limit argument
    shtml,            \* result of its fetchHTML
    sret,             \* what it returned or threw
    \* one call of Post.fetch
    isLogged,         \* shared.isLogged
    post,             \* the fields of the Post object
    ppc,              \* position of the call
    phtml,            \* the html argument
    prequests,        \* the requests the call issued
    presponse,        \* result of its fetchHTML
    pthrown,          \* the value the call rejected with
    \* the metadata step of Thread.fetch, with the rating in full
    jsonld,           \* the JSON-LD tree of the first page
    mpc,              \* position of the step
    trating,          \* Thread._rating
    mthrown,          \* the value the step raised
    \* one call of fetchHTML or of fetchGETResponse
    ncall,            \* the function called and its url
    npc,              \* position of the call
    nrequests,        \* the requests the call issued
    nax,              \* what axios.get settled with
    nret,             \* what the call returned or raised
    \* the calls of authenticate and of getF95Token, one per caller
    apc,              \* position of each call
    acall,            \* the function each caller calls, and its arguments
    aret              \* what each call returned or threw

threadVars == <<token, pc, requests, htmlResponse, postResponse, pages, i,
                htmlPromiseList, responses, k, fetchedPosts, posts, rating,
                thrown, firstSettled>>
queryVars  == <<query, qpc, qop, qret, depth>>
searchVars == <<spc, slimit, shtml, sret>>
postVars   == <<isLogged, post, ppc, phtml, prequests, presponse, pthrown>>

ratingVars == <<jsonld, mpc, trating, mthrown>>
netVars    == <<ncall, npc, nrequests, nax, nret>>
authVars   == <<apc, acall, aret>>

vars == <<threadVars, queryVars, searchVars, postVars, ratingVars, netVars, authVars>>

----------------------------------------------------------------------------
(* URLs and requests                                                       *)

NoUrl          == [kind |-> "none", n |-> 0]
ThreadUrl      == [kind |-> "thread", n |-> 0]
PageUrl(idx)   == [kind |-> "page", n |-> idx]
PostsNumberUrl == [kind |-> "posts_number", n |-> 0]

\* setMaximumPostsForPage(100)
PostsPerPage == 100

\* n: the "dpp_custom_config[posts]" parameter of a POST, 0 for a GET
GetRequest(url)     == [method |-> "GET", url |-> url, n |-> 0]
PostRequest(url, n) == [method |-> "POST", url |-> url, n |-> n]

----------------------------------------------------------------------------
(* Errors and results                                                      *)

NoError == [name |-> "none", id |-> 0, url |-> NoUrl]
GenericAxiosError(url) == [name |-> "GenericAxiosError", id |-> 1, url |-> url]
UnexpectedResponseContentType ==
    [name |-> "UnexpectedResponseContentType", id |-> 2, url |-> NoUrl]
\* ratingTree is undefined: reading a property of it raises
TypeError == [name |-> "TypeError", id |-> 0, url |-> NoUrl]
\* the pagination-size request was refused for want of a valid session token
NotAuthenticated == [name |-> "NotAuthenticated", id |-> 0, url |-> PostsNumberUrl]

\* parseInt of a text that holds no number
NaN == -1

\* What the pipeline reads from the HTML of a page.
EmptyHtml == [lastPage |-> NaN, aggregateRating |-> FALSE, posts |-> <<>>]

success(v) == [tag |-> "success", value |-> v, err |-> NoError]
failure(e) == [tag |-> "failure", value |-> EmptyHtml, err |-> e]
Pending    == [tag |-> "pending", value |-> EmptyHtml, err |-> NoError]
\* the promise of the call is rejected: an error was raised, no Result returned
raised(e)  == [tag |-> "raised", value |-> EmptyHtml, err |-> e]

isSuccess(r) == r.tag = "success"
isFailure(r) == r.tag = "failure"

----------------------------------------------------------------------------
(* The platform: what a request can be answered with                       *)

PostIds == 1..MaxPostId
\* the post IDs found on one page, in page order
PageContents == UNION {[1..n -> PostIds] : n \in 0..MaxPageLen}

\* The first page of a thread: its last-page indicator and its JSON-LD block.
FirstPageHtmls ==
    {[lastPage |-> p, aggregateRating |-> b, posts |-> <<>>] :
        p \in {NaN} \cup (1..MaxPages), b \in BOOLEAN}
\* A page requested by the fan-out: only its posts are read.
PageHtmls ==
    {[lastPage |-> NaN, aggregateRating |-> TRUE, posts |-> s] : s \in PageContents}

\* The page a post is on: the posts of the page, in page order.
PostPageHtmls ==
    {[lastPage |-> NaN, aggregateRating |-> TRUE, posts |-> s] :
        s \in UNION {[1..n -> PostIds] : n \in 0..MaxPostPageLen}}

Htmls(url) ==
    CASE url.kind = "thread" -> FirstPageHtmls
      [] url.kind = "post"   -> PostPageHtmls
      [] OTHER               -> PageHtmls

HtmlContentType == "text/html; charset=utf-8"
JsonContentType == "application/json"

\* The outcomes of axios.get(url): it throws, or resolves with a response;
\* the response carries its content type where fetchHTML reads it.
AxiosGetOutcomes(url) ==
    {[ok |-> FALSE, ctype |-> "", data |-> EmptyHtml]}
    \cup {[ok |-> TRUE, ctype |-> HtmlContentType, data |-> d] : d \in Htmls(url)}
    \cup {[ok |-> TRUE, ctype |-> JsonContentType, data |-> EmptyHtml]}

Tokens == {"", "stale", "valid"}
ValidToken(t) == t = "valid"

----------------------------------------------------------------------------
(* network-helper                                                          *)

\* "content-type".includes("text/html")
IncludesTextHtml(ctype) == ctype = HtmlContentType

\* response.value["content-type"] of a response object that has no property
\* of that name
NoContentType == "undefined"
HasContentType(response) == response.ctype # NoContentType

\* the request is sent again when it has failed
AfterSettleRetries(reqs, url, ax) ==
    IF ax.ok THEN reqs ELSE Append(reqs, GetRequest(url))

\* The requests issued once axios.get has settled: fetchGETResponse returns
\* from its try block or from its catch block, and sends nothing more.
AfterSettle(reqs, url, ax) == reqs

fetchGETResponse(url, ax) ==
    IF ax.ok
    THEN [tag |-> "success", value |-> ax, err |-> NoError]
    ELSE [tag |-> "failure", value |-> ax, err |-> GenericAxiosError(url)]

\* calling includes on undefined raises TypeError
fetchHTML(url, ax) ==
    LET response == fetchGETResponse(url, ax)
    IN  IF isSuccess(response)
        THEN IF ~HasContentType(response.value) THEN raised(TypeError)
             ELSE IF IncludesTextHtml(response.value.ctype)
             THEN success(response.value.data)
             ELSE failure(UnexpectedResponseContentType)
        ELSE failure(response.err)

\* The results the POST of the pagination size can end in: the platform
\* accepts it only with the token of an authenticated session.
fetchPOSTResponse(url, xfToken) ==
    {failure(GenericAxiosError(url))}
    \cup (IF ValidToken(xfToken) THEN {success(EmptyHtml)}
                                 ELSE {failure(NotAuthenticated)})

----------------------------------------------------------------------------
(* Thread                                                                  *)

Unset == [set |-> FALSE, list |-> <<>>]
Set(l) == [set |-> TRUE, list |-> l]

\* new Post() filled from one post element of the page
Post(id) == [id |-> id]

parsePostsInPage(html) == [j \in 1..Len(html.posts) |-> Post(html.posts[j])]

\* the comparator handed to Array.prototype.sort
ComparePosts(a, b) == IF a.id > b.id THEN 1 ELSE IF b.id > a.id THEN -1 ELSE 0

\* insert p after the last element that does not compare greater than it
RECURSIVE Insert(_, _)
Insert(p, s) ==
    IF s = <<>> THEN <<p>>
    ELSE IF ComparePosts(s[Len(s)], p) > 0
         THEN Append(Insert(p, SubSeq(s, 1, Len(s) - 1)), s[Len(s)])
         ELSE Append(s, p)

RECURSIVE SortFrom(_, _)
SortFrom(done, rest) ==
    IF rest = <<>> THEN done
    ELSE SortFrom(Insert(rest[1], done), Tail(rest))

\* the list is returned as pushed, without the sort
SortPostsUnsorted(s) == s

\* fetchedPosts.sort(comparator): Array.prototype.sort is stable
SortPosts(s) == SortFrom(<<>>, s)

\* the accumulator is overwritten by the posts of the page
PushPostsOverwrites(acc, ps) == ps

\* fetchedPosts.push(...posts)
PushPosts(acc, ps) == acc \o ps

\* the loop stops one page short
LoopCondExclusive(idx, p) == p # NaN /\ idx < p

\* i <= pages; a comparison with NaN is false
LoopCond(idx, p) == p # NaN /\ idx <= p

\* the result of the POST is not inspected
ThrowsNever(r) == FALSE
\* only a transport failure of the POST is thrown
ThrowsOnNetworkFailureOnly(r) == isFailure(r) /\ r.err.name = "GenericAxiosError"

\* if (response.isFailure()) throw response.value
ThrowsOnPostFailure(r) == isFailure(r)

\* a refused POST clears the token of the session
TokenClearedOnFailure(t, r) == IF isFailure(r) THEN "" ELSE t

\* Shared.session.token once the POST has settled: setMaximumPostsForPage
\* reads the token for its parameters and assigns nothing to the session
TokenAfterPost(t, r) == t

\* a new error is thrown in place of the failure value
FirstPageThrownWrapped(r) == TypeError

\* if (htmlResponse.isSuccess()) ... else throw htmlResponse.value
FirstPageUsable(r) == isSuccess(r)
FirstPageThrown(r) == r.err

\* the wait ends at the first failed page, as if its promise had rejected
PromiseAllFailsFast(ps) ==
    \/ \A j \in 1..Len(ps) : ps[j].tag # "pending"
    \/ \E j \in 1..Len(ps) : ps[j].tag = "failure"

\* Promise.all over promises that never reject resolves once all are settled
PromiseAllResolves(ps) == \A j \in 1..Len(ps) : ps[j].tag # "pending"

\* the responses are scanned from the last page to the first
ScrapeNextReversed(rs, idx) == rs[Len(rs) - idx + 1]
\* the scan stops after the first page
ScrapeFinishedEarly(rs, idx) == idx > Len(rs) \/ idx > 1

\* for (const response of responses)
ScrapeNext(rs, idx) == rs[idx]
ScrapeFinished(rs, idx) == idx > Len(rs)

\* the fan-out loop awaits inside its body
SuspendedInLoop(p) == p \in {"fetchFirst", "setMax", "loop", "awaitAll"}

\* the positions at which the run is suspended at an await, so that the
\* event loop can deliver the settlement of a request
Suspended(p) == p \in {"fetchFirst", "setMax", "awaitAll"}

----------------------------------------------------------------------------
(* The components at rest: no query call, no search call, no Post.fetch    *)

\* a property that was never assigned
Undefined == [t |-> "undefined", v |-> 0, frac |-> FALSE]

\* new Post(id)
NewPost(id) == [id |-> id, filled |-> FALSE, source |-> "none"]

\* an omitted html argument, an omitted limit argument
NoHtml  == [given |-> FALSE, html |-> EmptyHtml]
NoLimit == [given |-> FALSE, n |-> 0]

NoQuery  == [itype |-> "none"]
NoCall   == [name |-> "none", T |-> "none"]
NoReturn == [kind |-> "none"]

QueryIdle ==
    /\ query = NoQuery
    /\ qpc = "idle"
    /\ qop = NoCall
    /\ qret = NoReturn
    /\ depth = 0

SearchIdle ==
    /\ spc = "idle"
    /\ slimit = NoLimit
    /\ shtml = Pending
    /\ sret = NoReturn

PostIdle ==
    /\ isLogged = FALSE
    /\ post = NewPost(Undefined)
    /\ ppc = "idle"
    /\ phtml = NoHtml
    /\ prequests = <<>>
    /\ presponse = Pending
    /\ pthrown = NoError

\* no JSON-LD tree read yet, no rating parsed
NoTree   == [present |-> FALSE, ratingValue |-> Undefined,
             bestRating |-> Undefined, ratingCount |-> Undefined]
NoRating == [average |-> Undefined, best |-> Undefined, count |-> Undefined]

RatingIdle ==
    /\ jsonld = NoTree
    /\ mpc = "idle"
    /\ trating = NoRating
    /\ mthrown = NoError

NoNetCall  == [fn |-> "none", url |-> NoUrl]
NoResponse == [ok |-> FALSE, ctype |-> "", data |-> EmptyHtml]

NetIdle ==
    /\ ncall = NoNetCall
    /\ npc = "idle"
    /\ nrequests = <<>>
    /\ nax = NoResponse
    /\ nret = NoReturn

Callers == 1..MaxCallers
NoAuthCall == [fn |-> "none", token |-> "", force |-> FALSE]

AuthIdle ==
    /\ apc = [c \in Callers |-> "idle"]
    /\ acall = [c \in Callers |-> NoAuthCall]
    /\ aret = [c \in Callers |-> NoReturn]

Rest == RatingIdle /\ NetIdle /\ AuthIdle

----------------------------------------------------------------------------
(* The run                                                                 *)

Init ==
    /\ QueryIdle
    /\ SearchIdle
    /\ PostIdle
    /\ Rest
    /\ token \in Tokens
    /\ pc = "idle"
    /\ requests = <<>>
    /\ htmlResponse = Pending
    /\ postResponse = Pending
    /\ pages = 0
    /\ i = 0
    /\ htmlPromiseList = <<>>
    /\ responses = <<>>
    /\ k = 0
    /\ fetchedPosts = <<>>
    /\ posts = Unset
    /\ rating = FALSE
    /\ thrown = NoError
    /\ firstSettled = 0

\* Thread.fetch up to its first await: the first page is requested.
Fetch ==
    /\ pc = "idle"
    /\ requests' = Append(requests, GetRequest(ThreadUrl))
    /\ pc' = "fetchFirst"
    /\ UNCHANGED <<token, htmlResponse, postResponse, pages, i, htmlPromiseList,
                   responses, k, fetchedPosts, posts, rating, thrown, firstSettled>>
    /\ UNCHANGED <<queryVars, searchVars, postVars, ratingVars, netVars, authVars>>

\* The first page settles.  On failure the run rejects with the failure
\* value.  On success the metadata is parsed (parseRating raises when the
\* JSON-LD holds no aggregateRating), then fetchPosts starts and
\* setMaximumPostsForPage sends its POST with the session token.
FirstPageSettles ==
    /\ pc = "fetchFirst"
    /\ Suspended(pc)
    /\ \E ax \in AxiosGetOutcomes(ThreadUrl) :
        LET r == fetchHTML(ThreadUrl, ax)
            sent == AfterSettle(requests, ThreadUrl, ax) IN
        /\ htmlResponse' = r
        /\ IF FirstPageUsable(r)
           THEN IF r.value.aggregateRating
                THEN /\ rating' = TRUE
                     /\ pages' = r.value.lastPage
                     /\ requests' = Append(sent, PostRequest(PostsNumberUrl, PostsPerPage))
                     /\ pc' = "setMax"
                     /\ UNCHANGED thrown
                ELSE /\ thrown' = TypeError
                     /\ pc' = "failed"
                     /\ requests' = sent
                     /\ UNCHANGED <<rating, pages>>
           ELSE /\ thrown' = FirstPageThrown(r)
                /\ pc' = "failed"
                /\ requests' = sent
                /\ UNCHANGED <<rating, pages>>
    /\ UNCHANGED <<token, postResponse, i, htmlPromiseList, responses, k,
                   fetchedPosts, posts, firstSettled>>
    /\ UNCHANGED <<queryVars, searchVars, postVars, ratingVars, netVars, authVars>>

\* The POST of setMaximumPostsForPage settles: a failure is thrown, a
\* success lets fetchPosts enter its fan-out loop.
PostSettles ==
    /\ pc = "setMax"
    /\ Suspended(pc)
    /\ \E r \in fetchPOSTResponse(PostsNumberUrl, token) :
        /\ postResponse' = r
        /\ token' = TokenAfterPost(token, r)
        /\ IF ThrowsOnPostFailure(r)
           THEN /\ thrown' = r.err
                /\ pc' = "failed"
                /\ UNCHANGED i
           ELSE /\ pc' = "loop"
                /\ i' = 1
                /\ UNCHANGED thrown
    /\ UNCHANGED <<requests, htmlResponse, pages, htmlPromiseList,
                   responses, k, fetchedPosts, posts, rating, firstSettled>>
    /\ UNCHANGED <<queryVars, searchVars, postVars, ratingVars, netVars, authVars>>

\* One iteration of the fan-out loop: fetchHTML(page-i) is called, not
\* awaited, and its promise is pushed.
IssuePageFetch ==
    /\ pc = "loop"
    /\ LoopCond(i, pages)
    /\ requests' = Append(requests, GetRequest(PageUrl(i)))
    /\ htmlPromiseList' = Append(htmlPromiseList, Pending)
    /\ i' = i + 1
    /\ UNCHANGED <<token, pc, htmlResponse, postResponse, pages, responses, k,
                   fetchedPosts, posts, rating, thrown, firstSettled>>
    /\ UNCHANGED <<queryVars, searchVars, postVars, ratingVars, netVars, authVars>>

\* The loop ends and the run suspends at await Promise.all(htmlPromiseList).
AwaitAll ==
    /\ pc = "loop"
    /\ ~LoopCond(i, pages)
    /\ pc' = "awaitAll"
    /\ UNCHANGED <<token, requests, htmlResponse, postResponse, pages, i,
                   htmlPromiseList, responses, k, fetchedPosts, posts, rating,
                   thrown, firstSettled>>
    /\ UNCHANGED <<queryVars, searchVars, postVars, ratingVars, netVars, authVars>>

\* The request behind one pending promise of the fan-out settles.
PageSettles ==
    /\ Suspended(pc)
    /\ \E j \in 1..Len(htmlPromiseList) :
        /\ htmlPromiseList[j].tag = "pending"
        /\ \E ax \in AxiosGetOutcomes(requests[j + 2].url) :
            /\ htmlPromiseList' =
                  [htmlPromiseList EXCEPT ![j] = fetchHTML(requests[j + 2].url, ax)]
            /\ requests' = AfterSettle(requests, requests[j + 2].url, ax)
        /\ firstSettled' = IF firstSettled = 0 THEN j ELSE firstSettled
    /\ UNCHANGED <<token, pc, htmlResponse, postResponse, pages, i,
                   responses, k, fetchedPosts, posts, rating, thrown>>
    /\ UNCHANGED <<queryVars, searchVars, postVars, ratingVars, netVars, authVars>>

\* Promise.all resolves with the results in the order of the promise list.
AllResolved ==
    /\ pc = "awaitAll"
    /\ PromiseAllResolves(htmlPromiseList)
    /\ responses' = htmlPromiseList
    /\ k' = 1
    /\ pc' = "scrape"
    /\ UNCHANGED <<token, requests, htmlResponse, postResponse, pages, i,
                   htmlPromiseList, fetchedPosts, posts, rating, thrown,
                   firstSettled>>
    /\ UNCHANGED <<queryVars, searchVars, postVars, ratingVars, netVars, authVars>>

\* One iteration of the scrape loop: the posts of a successful page are
\* pushed to the local accumulator, a failed page makes the run reject.
Scrape ==
    /\ pc = "scrape"
    /\ ~ScrapeFinished(responses, k)
    /\ LET response == ScrapeNext(responses, k) IN
        IF isSuccess(response)
        THEN /\ fetchedPosts' = PushPosts(fetchedPosts, parsePostsInPage(response.value))
             /\ k' = k + 1
             /\ UNCHANGED <<pc, thrown>>
        ELSE /\ thrown' = response.err
             /\ pc' = "failed"
             /\ UNCHANGED <<fetchedPosts, k>>
    /\ UNCHANGED <<token, requests, htmlResponse, postResponse, pages, i,
                   htmlPromiseList, responses, posts, rating, firstSettled>>
    /\ UNCHANGED <<queryVars, searchVars, postVars, ratingVars, netVars, authVars>>

\* fetchPosts returns the sorted list and Thread.fetch stores it in _posts.
Assemble ==
    /\ pc = "scrape"
    /\ ScrapeFinished(responses, k)
    /\ posts' = Set(SortPosts(fetchedPosts))
    /\ pc' = "done"
    /\ UNCHANGED <<token, requests, htmlResponse, postResponse, pages, i,
                   htmlPromiseList, responses, k, fetchedPosts, rating, thrown,
                   firstSettled>>
    /\ UNCHANGED <<queryVars, searchVars, postVars, ratingVars, netVars, authVars>>

Next ==
    \/ Fetch
    \/ FirstPageSettles
    \/ PostSettles
    \/ IssuePageFetch
    \/ AwaitAll
    \/ PageSettles
    \/ AllResolved
    \/ Scrape
    \/ Assemble

Spec == Init /\ [][Next]_vars

TypeOK ==
    /\ token \in Tokens
    /\ pc \in {"idle", "fetchFirst", "setMax", "loop", "awaitAll", "scrape", "done", "failed"}
    /\ posts.set \in BOOLEAN
    /\ Len(htmlPromiseList) <= MaxPages

----------------------------------------------------------------------------
(* JavaScript values of the query fields                                   *)

\* a number n, or n + 0.5 when frac
Num(n)  == [t |-> "number", v |-> n, frac |-> FALSE]
Half(n) == [t |-> "number", v |-> n, frac |-> TRUE]
Null    == [t |-> "null", v |-> 0, frac |-> FALSE]

Digits == <<"0", "1", "2", "3", "4", "5", "6", "7", "8", "9">>

RECURSIVE NatToString(_)
NatToString(n) ==
    IF n < 10 THEN Digits[n + 1]
    ELSE NatToString(n \div 10) \o Digits[(n % 10) + 1]

\* Number.prototype.toString of a number that is not negative
NumberToString(x) == IF x.frac THEN NatToString(x.v) \o ".5" ELSE NatToString(x.v)

\* a non-empty string is truthy
Truthy(str) == str # ""

\* [1, 2, ..., n]
Ids(n) == [j \in 1..n |-> j]

----------------------------------------------------------------------------
(* SearchQuery: the query of the latest listing                            *)

MAX_TAGS == 5
MIN_PAGE == 1
VALID_CATEGORY == {"games", "comics", "animations", "assets"}
VALID_SORT == {"date", "likes", "views", "title", "rating"}
VALID_DATE == {Num(365), Num(180), Num(90), Num(30), Num(14), Num(7), Num(3), Num(1), Null}

\* the values a caller can put in the fields
Categories == VALID_CATEGORY \cup {"mods"}
Sorts      == VALID_SORT \cup {"relevance"}
Dates      == VALID_DATE \cup {Num(2)}
PageValues == {Num(0), Num(1), Num(2), Half(1)}

SearchQueries ==
    {[itype |-> "SearchQuery", category |-> c, tags |-> Ids(nt), prefixes |-> Ids(np),
      sort |-> so, date |-> d, page |-> pg] :
        c \in Categories, nt \in 0..MaxTagCount, np \in 0..MaxPrefixCount,
        so \in Sorts, d \in Dates, pg \in PageValues}

\* the decorators of class-validator
IsIn(value, possibleValues) == value \in possibleValues
ArrayMaxSize(array, max) == Len(array) <= max
IsInt(x) == x.t = "number" /\ ~x.frac
Min(x, min) == x.t = "number" /\ x.v >= min

\* The decorators take their constraints from SearchQuery.prototype when the
\* class is defined, and the constants are fields of the instances: what the
\* decorators hold is the constants where the build puts them on the
\* prototype, and undefined where it does not.
ConstraintReadings == {"constants", "undefined"}

\* n <= undefined, n >= undefined
ComparesToUndefined(n) == FALSE

\* the checks against undefined: there is no list to be outside of, and no
\* number that the length of the tags or the page compares to
validateUnbound(q) ==
    /\ ComparesToUndefined(Len(q.tags))
    /\ IsInt(q.page)
    /\ ComparesToUndefined(q.page.v)

\* the size of the tag list is not checked
validateWithoutTagLimit(q, reading) ==
    IF reading = "undefined" THEN validateUnbound(q)
    ELSE /\ IsIn(q.category, VALID_CATEGORY)
         /\ IsIn(q.sort, VALID_SORT)
         /\ IsIn(q.date, VALID_DATE)
         /\ IsInt(q.page)
         /\ Min(q.page, MIN_PAGE)

\* validateSync(this).length === 0
validate(q, reading) ==
    IF reading = "undefined" THEN validateUnbound(q)
    ELSE /\ IsIn(q.category, VALID_CATEGORY)
         /\ ArrayMaxSize(q.tags, MAX_TAGS)
         /\ IsIn(q.sort, VALID_SORT)
         /\ IsIn(q.date, VALID_DATE)
         /\ IsInt(q.page)
         /\ Min(q.page, MIN_PAGE)

Thrown(e) == [kind |-> "thrown", error |-> e]
Url(ps)   == [kind |-> "url", params |-> ps]

\* url.searchParams.append(name, value) for every element of a list
AppendAll(ps, name, list) ==
    ps \o [j \in 1..Len(list) |-> <<name, NatToString(list[j])>>]

\* if (!this.validate()) throw new Error("Invalid query")
RefusesInvalid(q, reading) == ~validate(q, reading)

\* null has no method toString: this.date.toString() raises TypeError
HasToString(x) == x.t # "null"

createUrl(q, reading) ==
    IF RefusesInvalid(q, reading) THEN Thrown("Invalid query")
    ELSE LET p1 == <<<<"cmd", "list">>, <<"cat", q.category>>>>
             p2 == AppendAll(p1, "tags[]", q.tags)
             p3 == AppendAll(p2, "prefixes[]", q.prefixes)
             p4 == Append(p3, <<"sort", q.sort>>)
         IN  IF ~HasToString(q.date) THEN Thrown("TypeError")
             ELSE Url(Append(Append(p4, <<"date", NumberToString(q.date)>>),
                             <<"page", NumberToString(q.page)>>))

\* URLSearchParams.toString(): the brackets of a name are percent-encoded
EncodeName(name) ==
    IF name = "tags[]" THEN "tags%5B%5D"
    ELSE IF name = "prefixes[]" THEN "prefixes%5B%5D" ELSE name

RECURSIVE SearchString(_)
SearchString(ps) ==
    IF ps = <<>> THEN ""
    ELSE LET pair == ps[Len(ps)]
             head == SubSeq(ps, 1, Len(ps) - 1)
             text == EncodeName(pair[1]) \o "=" \o pair[2]
         IN  IF head = <<>> THEN text ELSE SearchString(head) \o "&" \o text

----------------------------------------------------------------------------
(* HandiworkSearchQuery                                                    *)

HANDIWORK_MIN_PAGE == 1
MAX_TAGS_LATEST_SEARCH == 5
DEFAULT_SEARCH_TYPE == "latest"

THandiworkOrder == {"date", "likes", "relevance", "replies", "title", "views"}

Keywords     == {"", "kw"}
\* a Date as the number of days it lies in the past, or null
DateValues   == {Null, Num(2), Num(400)}
ExcludedTags == {<<>>, <<"x">>}

HandiworkQueries ==
    {[itype |-> "HandiworkSearchQuery", keywords |-> kw, newerThan |-> nd,
      olderThan |-> od, includedTags |-> Ids(nt), excludedTags |-> ex,
      category |-> "games", order |-> o, page |-> pg] :
        kw \in Keywords, nd \in DateValues, od \in DateValues,
        nt \in 0..MaxTagCount, ex \in ExcludedTags, o \in THandiworkOrder,
        pg \in PageValues}

\* obj[name] = value, on an object that may not have the property yet
SetField(obj, name, value) ==
    [f \in DOMAIN obj \cup {name} |-> IF f = name THEN value ELSE obj[f]]

\* the threshold is met by 5 tags already
selectSearchTypeInclusive(q) ==
    IF Truthy(q.keywords) \/ Len(q.includedTags) >= MAX_TAGS_LATEST_SEARCH
    THEN "thread"
    ELSE DEFAULT_SEARCH_TYPE

selectSearchType(q) ==
    IF Truthy(q.keywords) \/ Len(q.includedTags) > MAX_TAGS_LATEST_SEARCH
    THEN "thread"
    ELSE DEFAULT_SEARCH_TYPE

\* only the page carries decorators
validateHandiwork(q) == IsInt(q.page) /\ Min(q.page, HANDIWORK_MIN_PAGE)

\* LatestSearchQuery.findNearestDate: the first bucket, from the most
\* restrictive one, that covers the days elapsed; null when none does
DateBuckets == <<1, 3, 7, 14, 30, 90, 180, 365>>
findNearestDate(d) ==
    LET fits == {j \in 1..Len(DateBuckets) : DateBuckets[j] >= d.v}
    IN  IF fits = {} THEN Null
        ELSE Num(DateBuckets[CHOOSE j \in fits : \A x \in fits : j <= x])

LatestOrderOf(order) ==
    IF order = "relevance" THEN "rating"
    ELSE IF order = "replies" THEN "views" ELSE order

castToLatest(q) ==
    LET q1 == [q EXCEPT !.itype = "LatestSearchQuery", !.order = LatestOrderOf(q.order)]
    IN  IF q.newerThan.t # "null"
        THEN SetField(q1, "date", findNearestDate(q.newerThan))
        ELSE q1

ThreadOrderOf(order) ==
    IF order = "likes" \/ order = "title" THEN "relevance" ELSE order

castToThread(q) ==
    SetField([q EXCEPT !.order = ThreadOrderOf(q.order)], "onlyTitles", TRUE)

\* const query: T = {} as IQuery as T; query.itype
\* T is erased when the code is compiled: the object literal has no itype
ItypeOfEmptyObject(T) == "undefined"

cast(q, T) ==
    LET itype == ItypeOfEmptyObject(T)
    IN  IF itype = "LatestSearchQuery" THEN castToLatest(q)
        ELSE IF itype = "ThreadSearchQuery" THEN castToThread(q)
        ELSE q

\* the variant createURL asks cast for
VariantFor(q) ==
    IF selectSearchType(q) = "latest" THEN "LatestSearchQuery" ELSE "ThreadSearchQuery"

----------------------------------------------------------------------------
(* Calls on a query object                                                 *)

ThreadIdle ==
    /\ token = ""
    /\ pc = "idle"
    /\ requests = <<>>
    /\ htmlResponse = Pending
    /\ postResponse = Pending
    /\ pages = 0
    /\ i = 0
    /\ htmlPromiseList = <<>>
    /\ responses = <<>>
    /\ k = 0
    /\ fetchedPosts = <<>>
    /\ posts = Unset
    /\ rating = FALSE
    /\ thrown = NoError
    /\ firstSettled = 0

Call(name, T, source) == [name |-> name, T |-> T, source |-> source]

InitQuery ==
    /\ ThreadIdle
    /\ Rest
    /\ SearchIdle
    /\ PostIdle
    /\ query \in SearchQueries \cup HandiworkQueries
    /\ qpc = "idle"
    /\ qop = NoCall
    /\ qret = NoReturn
    /\ depth = 0

\* SearchQuery.createUrl()
CreateUrl ==
    /\ qpc = "idle"
    /\ query.itype = "SearchQuery"
    /\ qop' = Call("createUrl", "none", query)
    /\ \E reading \in ConstraintReadings : qret' = createUrl(query, reading)
    /\ qpc' = "done"
    /\ UNCHANGED <<query, depth>>
    /\ UNCHANGED <<threadVars, searchVars, postVars, ratingVars, netVars, authVars>>

\* HandiworkSearchQuery.selectSearchType()
SelectSearchType ==
    /\ qpc = "idle"
    /\ query.itype = "HandiworkSearchQuery"
    /\ qop' = Call("selectSearchType", "none", query)
    /\ qret' = [kind |-> "searchType", type |-> selectSearchType(query)]
    /\ qpc' = "done"
    /\ UNCHANGED <<query, depth>>
    /\ UNCHANGED <<threadVars, searchVars, postVars, ratingVars, netVars, authVars>>

\* HandiworkSearchQuery.cast<T>(), as fetchHandiworkURLs calls it; the
\* conversions work on this, so the object itself is what they change
Cast ==
    /\ qpc = "idle"
    /\ query.itype = "HandiworkSearchQuery"
    /\ \E T \in {"LatestSearchQuery", "ThreadSearchQuery"} :
        /\ qop' = Call("cast", T, query)
        /\ query' = cast(query, T)
        /\ qret' = [kind |-> "query", value |-> cast(query, T)]
    /\ qpc' = "done"
    /\ UNCHANGED depth
    /\ UNCHANGED <<threadVars, searchVars, postVars, ratingVars, netVars, authVars>>

\* One frame of HandiworkSearchQuery.createURL(): an invalid query is
\* refused; otherwise the query is cast and createURL() is called on what
\* cast returned, which is this very object.
CreateURL ==
    /\ qpc \in {"idle", "createURL"}
    /\ query.itype = "HandiworkSearchQuery"
    /\ depth < StackLimit
    /\ qop' = IF qpc = "idle" THEN Call("createURL", "none", query) ELSE qop
    /\ IF ~validateHandiwork(query)
       THEN /\ qret' = Thrown("Invalid query")
            /\ qpc' = "done"
            /\ UNCHANGED <<query, depth>>
       ELSE /\ query' = cast(query, VariantFor(query))
            /\ depth' = depth + 1
            /\ qpc' = "createURL"
            /\ UNCHANGED qret
    /\ UNCHANGED <<threadVars, searchVars, postVars, ratingVars, netVars, authVars>>

\* The call stack is exhausted: the engine raises RangeError.
StackOverflow ==
    /\ qpc = "createURL"
    /\ depth = StackLimit
    /\ qret' = Thrown("RangeError")
    /\ qpc' = "done"
    /\ UNCHANGED <<query, qop, depth>>
    /\ UNCHANGED <<threadVars, searchVars, postVars, ratingVars, netVars, authVars>>

NextQuery ==
    \/ CreateUrl
    \/ SelectSearchType
    \/ Cast
    \/ CreateURL
    \/ StackOverflow

SpecQuery == InitQuery /\ [][NextQuery]_vars

Called(name) == qpc = "done" /\ qop.name = name

----------------------------------------------------------------------------
(* Properties of the queries                                               *)

\* C11: selectSearchType returns "thread" exactly when the keywords are not
\* empty or more than 5 tags are included, and "latest" otherwise.
C11_SearchTypeThreshold ==
    Called("selectSearchType") =>
        /\ qret.type \in {"thread", "latest"}
        /\ qret.type = "thread" <=>
              (qop.source.keywords # "" \/ Len(qop.source.includedTags) > 5)

\* C11 witness: exactly 5 included tags and no keywords give "latest".
C11_Witness ==
    /\ Called("selectSearchType")
    /\ qop.source.keywords = ""
    /\ Len(qop.source.includedTags) = 5
    /\ qret.type = "latest"

\* C12: cast<T>() returns a record tagged with the variant T it was asked for.
C12_CastReturnsVariant ==
    Called("cast") => qret.value.itype = qop.T

\* C13: the query obtained by casting carries an order of the vocabulary of
\* the backend it was cast to.
C13_OrderInBackendVocabulary ==
    Called("cast") =>
        /\ qop.T = "LatestSearchQuery" =>
              qret.value.order \in {"date", "likes", "views", "title", "rating"}
        /\ qop.T = "ThreadSearchQuery" =>
              qret.value.order \in {"date", "relevance", "replies", "views", "title"}

\* C14: casting to the thread backend turns the order likes into relevance
\* and leaves date, relevance, replies, views and title as they are.
C14_ThreadOrderRemap ==
    (Called("cast") /\ qop.T = "ThreadSearchQuery") =>
        /\ qop.source.order = "likes" => qret.value.order = "relevance"
        /\ qop.source.order \in {"date", "relevance", "replies", "views", "title"} =>
              qret.value.order = qop.source.order

\* C15: the record cast to the thread backend has the excluded tags, the
\* dates and the keywords of the source query and title-only search set.
C15_ThreadCastFields ==
    (Called("cast") /\ qop.T = "ThreadSearchQuery") =>
        /\ qret.value.excludedTags = qop.source.excludedTags
        /\ qret.value.newerThan = qop.source.newerThan
        /\ qret.value.olderThan = qop.source.olderThan
        /\ qret.value.keywords = qop.source.keywords
        /\ "onlyTitles" \in DOMAIN qret.value
        /\ qret.value.onlyTitles = TRUE

\* the page is an integer not below 1
PageIsValid(q) == q.page \in {Num(1), Num(2)}

\* the constraints of a latest-listing query, as the decorators state them
LatestIsValid(q) ==
    /\ q.category \in {"games", "comics", "animations", "assets"}
    /\ q.sort \in {"date", "likes", "views", "title", "rating"}
    /\ q.date \in {Num(365), Num(180), Num(90), Num(30), Num(14), Num(7), Num(3), Num(1), Null}
    /\ Len(q.tags) <= 5
    /\ PageIsValid(q)

\* C16: createUrl and createURL refuse a query that fails validation with
\* the invalid-query error, and return a URL only for a query that passes.
C16_FailsClosed ==
    /\ Called("createUrl") =>
          /\ ~LatestIsValid(qop.source) => qret = Thrown("Invalid query")
          /\ qret.kind = "url" => LatestIsValid(qop.source)
    /\ Called("createURL") =>
          /\ ~PageIsValid(qop.source) => qret = Thrown("Invalid query")
          /\ qret.kind = "url" => PageIsValid(qop.source)

\* C16 witness: a latest-listing query whose only fault is a sixth tag has
\* been refused.
C16_Witness ==
    /\ Called("createUrl")
    /\ Len(qop.source.tags) = 6
    /\ LatestIsValid([qop.source EXCEPT !.tags = <<>>])
    /\ qop.source.date = Num(365)
    /\ qret = Thrown("Invalid query")

ParamNames(ps) == {ps[j][1] : j \in 1..Len(ps)}

\* C17: for every valid latest-listing query createUrl returns a URL that
\* holds the keys cmd, cat, sort, date and page; for category games, no
\* tags, no prefixes, sort date, date null and page 1 the query string is
\* cmd=list&cat=games&sort=date&date=null&page=1.
C17_ScalarKeysAlwaysPresent ==
    (Called("createUrl") /\ LatestIsValid(qop.source)) =>
        /\ qret.kind = "url"
        /\ {"cmd", "cat", "sort", "date", "page"} \subseteq ParamNames(qret.params)
        /\ qop.source = [itype |-> "SearchQuery", category |-> "games", tags |-> <<>>,
                         prefixes |-> <<>>, sort |-> "date", date |-> Null,
                         page |-> Num(1)] =>
              SearchString(qret.params) = "cmd=list&cat=games&sort=date&date=null&page=1"

\* C27: HandiworkSearchQuery.createURL ends with the invalid-query error or
\* with a URL, and on the way calls createURL() once, on the query it cast
\* to, never itself again.
C27_CreateURLTerminates ==
    /\ qpc = "createURL" => depth <= 1
    /\ Called("createURL") =>
          /\ depth <= 1
          /\ qret = Thrown("Invalid query") \/ qret.kind = "url"

----------------------------------------------------------------------------
(* Post.fetch                                                              *)

PostUrl(id) == [kind |-> "post", n |-> id.v]

UserNotLogged == [name |-> "UserNotLogged", id |-> 0, url |-> NoUrl]
InvalidID     == [name |-> "InvalidID", id |-> 0, url |-> NoUrl]
\* the owner of the post could not be resolved
OwnerFetchFailed == [name |-> "OwnerFetchFailed", id |-> 0, url |-> NoUrl]

\* the IDs a Post is constructed with
PostIdValues == {Undefined, Num(0), Num(-1)} \cup {Num(n) : n \in PostIds}

\* the html argument: omitted, or the HTML of a page of posts
HtmlArgs == {NoHtml} \cup {[given |-> TRUE, html |-> h] : h \in PostPageHtmls}

\* !this.id
Falsy(x) == x.t = "undefined" \/ x.t = "null" \/ x.v = 0

\* the ID is checked before the login
checkPreconditionsIdFirst(logged, id) ==
    IF Falsy(id) \/ id.v < 1 THEN InvalidID
    ELSE IF ~logged THEN UserNotLogged
    ELSE NoError

\* the two checks at the head of Post.fetch, the login check first: the
\* error thrown, or none
checkPreconditions(logged, id) ==
    IF ~logged THEN UserNotLogged
    ELSE IF Falsy(id) \/ id.v < 1 THEN InvalidID
    ELSE NoError

\* the page holds an element with the ID of the post
HoldsPost(html, id) == \E j \in 1..Len(html.posts) : html.posts[j] = id.v

\* elaborateResponse and parsePost: the error they end in, or none; a page
\* without the post leaves nothing to read the ID from
elaborateResponse(p, html, ownerFetched) ==
    IF ~HoldsPost(html, p.id) THEN TypeError
    ELSE IF ~ownerFetched THEN OwnerFetchFailed
    ELSE NoError

\* parsePost has assigned the fields of the post from a page
Filled(p, source) == [p EXCEPT !.filled = TRUE, !.source = source]

InitPost ==
    /\ ThreadIdle
    /\ Rest
    /\ QueryIdle
    /\ SearchIdle
    /\ isLogged \in BOOLEAN
    /\ post \in {NewPost(id) : id \in PostIdValues}
    /\ ppc = "idle"
    /\ phtml = NoHtml
    /\ prequests = <<>>
    /\ presponse = Pending
    /\ pthrown = NoError

\* Post.fetch(html) up to its first await
PostFetch ==
    /\ ppc = "idle"
    /\ \E arg \in HtmlArgs :
        /\ phtml' = arg
        /\ LET e == checkPreconditions(isLogged, post.id)
           IN  IF e # NoError
               THEN /\ pthrown' = e
                    /\ ppc' = "done"
                    /\ UNCHANGED prequests
               ELSE IF arg.given
               THEN /\ ppc' = "elaborating"
                    /\ UNCHANGED <<pthrown, prequests>>
               ELSE /\ prequests' = Append(prequests, GetRequest(PostUrl(post.id)))
                    /\ ppc' = "fetching"
                    /\ UNCHANGED pthrown
    /\ UNCHANGED <<isLogged, post, presponse>>
    /\ UNCHANGED <<threadVars, queryVars, searchVars, ratingVars, netVars, authVars>>

\* elaborateResponse(html) of the argument has settled; fetch goes on to
\* request the page of the post
PostElaborated ==
    /\ ppc = "elaborating"
    /\ \E ownerFetched \in BOOLEAN :
        LET e == elaborateResponse(post, phtml.html, ownerFetched)
        IN  IF e # NoError
            THEN /\ pthrown' = e
                 /\ ppc' = "done"
                 /\ UNCHANGED <<post, prequests>>
            ELSE /\ post' = Filled(post, "argument")
                 /\ prequests' = Append(prequests, GetRequest(PostUrl(post.id)))
                 /\ ppc' = "fetching"
                 /\ UNCHANGED pthrown
    /\ UNCHANGED <<isLogged, phtml, presponse>>
    /\ UNCHANGED <<threadVars, queryVars, searchVars, ratingVars, netVars, authVars>>

\* fetchHTML(url) has settled: a failure is thrown, a page is elaborated
PostSettled ==
    /\ ppc = "fetching"
    /\ \E ax \in AxiosGetOutcomes(PostUrl(post.id)) :
        LET response == fetchHTML(PostUrl(post.id), ax)
        IN  /\ presponse' = response
            /\ IF isSuccess(response)
               THEN /\ ppc' = "parsing"
                    /\ UNCHANGED pthrown
               ELSE /\ pthrown' = response.err
                    /\ ppc' = "done"
    /\ UNCHANGED <<isLogged, post, phtml, prequests>>
    /\ UNCHANGED <<threadVars, queryVars, searchVars, ratingVars, netVars, authVars>>

\* elaborateResponse(response.value) has settled
PostParsed ==
    /\ ppc = "parsing"
    /\ \E ownerFetched \in BOOLEAN :
        LET e == elaborateResponse(post, presponse.value, ownerFetched)
        IN  /\ pthrown' = e
            /\ post' = IF e = NoError THEN Filled(post, "network") ELSE post
    /\ ppc' = "done"
    /\ UNCHANGED <<isLogged, phtml, prequests, presponse>>
    /\ UNCHANGED <<threadVars, queryVars, searchVars, ratingVars, netVars, authVars>>

NextPost ==
    \/ PostFetch
    \/ PostElaborated
    \/ PostSettled
    \/ PostParsed

SpecPost == InitPost /\ [][NextPost]_vars

\* the ID is missing or less than 1
IdIsInvalid(id) == id.t # "number" \/ id.v < 1

\* C18: Post.fetch called without a login ends in the not-logged error, and
\* called with a login and a missing or non-positive ID in the invalid-ID
\* error; in both cases no request is issued and the post stays unfilled, and
\* a call with both faults ends in the not-logged error.
C18_PreconditionsFirst ==
    ppc # "idle" =>
        /\ ~isLogged =>
              /\ ppc = "done"
              /\ pthrown = UserNotLogged
              /\ prequests = <<>>
              /\ ~post.filled
        /\ (isLogged /\ IdIsInvalid(post.id)) =>
              /\ ppc = "done"
              /\ pthrown = InvalidID
              /\ prequests = <<>>
              /\ ~post.filled

\* C18 witness: a call without a login on a post without an ID has ended in
\* the not-logged error.
C18_Witness ==
    /\ ppc = "done"
    /\ ~isLogged
    /\ post.id = Undefined
    /\ pthrown = UserNotLogged
    /\ prequests = <<>>

\* C28: a call of Post.fetch that was given the HTML of the page issues no
\* request and, when it ends without an error, has filled the post from that
\* HTML; a request is issued only by a call that was given no HTML.
C28_GivenHtmlNoRequest ==
    ppc # "idle" =>
        /\ phtml.given => prequests = <<>>
        /\ (phtml.given /\ ppc = "done" /\ pthrown = NoError) =>
              /\ post.filled
              /\ post.source = "argument"
        /\ prequests # <<>> => ~phtml.given

----------------------------------------------------------------------------
(* fetchResultURLs                                                         *)

SearchUrl == [kind |-> "search", n |-> 0]

\* the href of the title link of a result entry: the path of a thread, or
\* a whole URL
Href(absolute, id) == [absolute |-> absolute, thread |-> id]

\* entry j of a page of n entries, listed upwards or downwards
EntryId(n, upwards, j) == IF upwards THEN j ELSE n + 1 - j

\* The result pages: the hrefs of their entries, in page order.
ResultPages ==
    {[results |-> [j \in 1..n |-> Href(a, EntryId(n, up, j))]] :
        n \in 0..MaxResults, a \in BOOLEAN, up \in BOOLEAN}

\* the responses the request of the result page can end in
SearchOutcomes ==
    {[ok |-> FALSE, ctype |-> "", data |-> EmptyHtml]}
    \cup {[ok |-> TRUE, ctype |-> HtmlContentType, data |-> d] : d \in ResultPages}
    \cup {[ok |-> TRUE, ctype |-> JsonContentType, data |-> EmptyHtml]}

\* the limit argument: omitted, or a number of items
LimitArgs == {NoLimit} \cup {[given |-> TRUE, n |-> n] : n \in 0..MaxLimit}

\* limit: number = 30
DefaultLimit == 30
LimitOrDefault(arg) == IF arg.given THEN arg.n ELSE DefaultLimit

\* the whole list, whatever the end index
sliceAll(list, start, end) == list

\* Cheerio.slice(start, end) for a start of 0 and an end that is not negative
slice(list, start, end) ==
    SubSeq(list, start + 1, IF end < Len(list) THEN end ELSE Len(list))

\* new URL(partialLink, F95_BASE_URL).toString()
ResolveURL(href) == [href EXCEPT !.absolute = TRUE]

extractLinkFromResult(entry) == ResolveURL(entry)

Urls(list) == [kind |-> "urls", urls |-> list]

\* a page without entries is reported as a failure
fetchResultURLsStrict(html, limit) ==
    IF isSuccess(html) /\ html.value.results # <<>>
    THEN LET results == slice(html.value.results, 0, limit)
         IN  Urls([j \in 1..Len(results) |-> extractLinkFromResult(results[j])])
    ELSE Thrown(html.err)

\* a failed request gives an empty list
fetchResultURLsLenient(html, limit) ==
    IF isSuccess(html)
    THEN LET results == slice(html.value.results, 0, limit)
         IN  Urls([j \in 1..Len(results) |-> extractLinkFromResult(results[j])])
    ELSE Urls(<<>>)

\* what fetchResultURLs makes of the result of fetchHTML
fetchResultURLs(html, limit) ==
    IF isSuccess(html)
    THEN LET results == slice(html.value.results, 0, limit)
         IN  Urls([j \in 1..Len(results) |-> extractLinkFromResult(results[j])])
    ELSE Thrown(html.err)

InitSearch ==
    /\ ThreadIdle
    /\ Rest
    /\ QueryIdle
    /\ PostIdle
    /\ SearchIdle

\* fetchResultURLs(url, limit) up to its await
FetchResultURLs ==
    /\ spc = "idle"
    /\ \E arg \in LimitArgs : slimit' = arg
    /\ spc' = "fetching"
    /\ UNCHANGED <<shtml, sret>>
    /\ UNCHANGED <<threadVars, queryVars, postVars, ratingVars, netVars, authVars>>

\* fetchHTML(url) has settled
SearchFetched ==
    /\ spc = "fetching"
    /\ \E ax \in SearchOutcomes : shtml' = fetchHTML(SearchUrl, ax)
    /\ spc' = "fetched"
    /\ UNCHANGED <<slimit, sret>>
    /\ UNCHANGED <<threadVars, queryVars, postVars, ratingVars, netVars, authVars>>

\* the URLs are returned, or the failure is thrown
SearchReturned ==
    /\ spc = "fetched"
    /\ sret' = fetchResultURLs(shtml, LimitOrDefault(slimit))
    /\ spc' = "done"
    /\ UNCHANGED <<slimit, shtml>>
    /\ UNCHANGED <<threadVars, queryVars, postVars, ratingVars, netVars, authVars>>

NextSearch ==
    \/ FetchResultURLs
    \/ SearchFetched
    \/ SearchReturned

SpecSearch == InitSearch /\ [][NextSearch]_vars

Minimum(a, b) == IF a < b THEN a ELSE b

\* the limit in force: the one given, 30 when none was given
LimitInForce == IF slimit.given THEN slimit.n ELSE 30

\* C19: for a result page of n entries fetchResultURLs returns min(n, limit)
\* URLs, limit being 30 when none is given: the URLs of the first
\* min(n, limit) entries, in page order.
C19_TruncatedToLimit ==
    (spc = "done" /\ isSuccess(shtml)) =>
        LET entries == shtml.value.results
            m == Minimum(Len(entries), LimitInForce)
        IN  /\ sret.kind = "urls"
            /\ Len(sret.urls) = m
            /\ \A j \in 1..m :
                  sret.urls[j] = [absolute |-> TRUE, thread |-> entries[j].thread]

\* C19 witness: a page of 31 entries searched without a limit has given the
\* URLs of its first 30 entries.
C19_Witness ==
    /\ spc = "done"
    /\ isSuccess(shtml)
    /\ ~slimit.given
    /\ Len(shtml.value.results) = 31
    /\ sret.kind = "urls"
    /\ Len(sret.urls) = 30

\* C20: when the request of the result page fails, fetchResultURLs throws
\* the failure of the fetch itself and returns no list of URLs.
C20_FailureSurfaced ==
    (spc = "done" /\ isFailure(shtml)) =>
        /\ sret.kind = "thrown"
        /\ sret.error = shtml.err
        /\ sret.error \in {GenericAxiosError(SearchUrl), UnexpectedResponseContentType}

\* C21: a result page fetched successfully that holds no entry makes
\* fetchResultURLs return the empty list of URLs, never throw.
C21_EmptyIsSuccess ==
    (spc = "done" /\ isSuccess(shtml) /\ Len(shtml.value.results) = 0) =>
        /\ sret.kind = "urls"
        /\ sret.urls = <<>>

\* C21 witness: a page without entries was fetched and the call returned the
\* empty list.
C21_Witness ==
    /\ spc = "done"
    /\ isSuccess(shtml)
    /\ shtml.value.results = <<>>
    /\ sret = Urls(<<>>)

\* C20 witness: the request failed and the call threw the request's error.
C20_Witness ==
    /\ spc = "done"
    /\ isFailure(shtml)
    /\ sret = Thrown(GenericAxiosError(SearchUrl))

----------------------------------------------------------------------------
(* Thread.fetch: the metadata step and the rating                          *)

\* The values of the JSON-LD tree: a numeral ("4", "4.5"), another text, or
\* undefined for a key the tree does not hold.
Numeral(n, frac) == [t |-> "numeral", v |-> n, frac |-> frac]
OtherText == [t |-> "text", v |-> 0, frac |-> FALSE]

NotANumber == [t |-> "NaN", v |-> 0, frac |-> FALSE]

\* parseFloat(text): the number the text starts with, NaN when there is none
parseFloat(x) ==
    IF x.t = "numeral" THEN [t |-> "number", v |-> x.v, frac |-> x.frac]
    ELSE NotANumber

\* parseInt(text): the integer the text starts with, NaN when there is none
parseInt(x) == IF x.t = "numeral" THEN Num(x.v) ELSE NotANumber

RatingValues == {Undefined, OtherText, Numeral(4, FALSE), Numeral(4, TRUE)}
BestRatings  == {Undefined, OtherText, Numeral(5, FALSE)}
RatingCounts == {Undefined, OtherText} \cup {Numeral(n, FALSE) : n \in 0..MaxRatingCount}

\* getJSONLD($("body")): the tree with its aggregateRating, or without one
JsonLDs ==
    {NoTree}
    \cup {[present |-> TRUE, ratingValue |-> rv, bestRating |-> br, ratingCount |-> rc] :
            rv \in RatingValues, br \in BestRatings, rc \in RatingCounts}

Rating(r) == [kind |-> "rating", value |-> r]

\* Thread.parseRating: reading a key of an aggregateRating that is undefined
\* raises TypeError
parseRating(data) ==
    IF ~data.present THEN Thrown(TypeError)
    ELSE Rating([average |-> parseFloat(data.ratingValue),
                 best    |-> parseInt(data.bestRating),
                 count   |-> parseInt(data.ratingCount)])

InitMetadata ==
    /\ ThreadIdle
    /\ QueryIdle
    /\ SearchIdle
    /\ PostIdle
    /\ NetIdle
    /\ AuthIdle
    /\ RatingIdle

\* the first page was fetched with success and its JSON-LD tree is read
ReadJSONLD ==
    /\ mpc = "idle"
    /\ jsonld' \in JsonLDs
    /\ mpc' = "loaded"
    /\ UNCHANGED <<trating, mthrown>>
    /\ UNCHANGED <<threadVars, queryVars, searchVars, postVars, netVars, authVars>>

\* this._rating = this.parseRating(JSONLD), and on to the posts
ParseRating ==
    /\ mpc = "loaded"
    /\ LET r == parseRating(jsonld)
       IN  IF r.kind = "thrown"
           THEN /\ mthrown' = r.error
                /\ mpc' = "failed"
                /\ UNCHANGED trating
           ELSE /\ trating' = r.value
                /\ mpc' = "fetchPosts"
                /\ UNCHANGED mthrown
    /\ UNCHANGED jsonld
    /\ UNCHANGED <<threadVars, queryVars, searchVars, postVars, netVars, authVars>>

NextMetadata ==
    \/ ReadJSONLD
    \/ ParseRating

SpecMetadata == InitMetadata /\ [][NextMetadata]_vars

\* the key holds a numeral
IsNumeric(x) == x.t = "numeral"

\* C22: when the aggregate rating or one of ratingValue, bestRating and
\* ratingCount is missing or not numeric the metadata step fails, and the
\* rating the thread holds has a number in each of average, best and count.
C22_RatingAllOrNothing ==
    /\ (mpc \in {"fetchPosts", "failed"}
        /\ ~(/\ jsonld.present
             /\ IsNumeric(jsonld.ratingValue)
             /\ IsNumeric(jsonld.bestRating)
             /\ IsNumeric(jsonld.ratingCount))) => mpc = "failed"
    /\ mpc = "fetchPosts" =>
          /\ trating.average.t = "number"
          /\ trating.best.t = "number"
          /\ trating.count.t = "number"

----------------------------------------------------------------------------
(* One call of fetchHTML or of fetchGETResponse                            *)

\* the URLs the pipeline fetches
NetUrls ==
    {ThreadUrl} \cup {PageUrl(n) : n \in 1..MaxPages}
                \cup {PostUrl(Num(n)) : n \in PostIds}

\* What axios.get(url) settles with.  The response object of axios keeps
\* the content type under its headers, so that response["content-type"] is
\* undefined; the responses that carry it under that name are kept as well.
AxiosResponses(url) ==
    AxiosGetOutcomes(url)
    \cup {[ok |-> TRUE, ctype |-> NoContentType, data |-> d] : d \in Htmls(url)}

InitNet ==
    /\ ThreadIdle
    /\ QueryIdle
    /\ SearchIdle
    /\ PostIdle
    /\ RatingIdle
    /\ AuthIdle
    /\ NetIdle

\* fetchHTML(url) or fetchGETResponse(url) up to the await of axios.get
NetCall ==
    /\ npc = "idle"
    /\ \E fn \in {"fetchHTML", "fetchGETResponse"}, url \in NetUrls :
        /\ ncall' = [fn |-> fn, url |-> url]
        /\ nrequests' = Append(nrequests, GetRequest(url))
    /\ npc' = "waiting"
    /\ UNCHANGED <<nax, nret>>
    /\ UNCHANGED <<threadVars, queryVars, searchVars, postVars, ratingVars, authVars>>

\* axios.get has settled and the call returns, or raises
NetSettles ==
    /\ npc = "waiting"
    /\ \E ax \in AxiosResponses(ncall.url) :
        /\ nax' = ax
        /\ nrequests' = AfterSettle(nrequests, ncall.url, ax)
        /\ nret' = IF ncall.fn = "fetchHTML"
                   THEN fetchHTML(ncall.url, ax)
                   ELSE fetchGETResponse(ncall.url, ax)
    /\ npc' = "done"
    /\ UNCHANGED ncall
    /\ UNCHANGED <<threadVars, queryVars, searchVars, postVars, ratingVars, authVars>>

NextNet ==
    \/ NetCall
    \/ NetSettles

SpecNet == InitNet /\ [][NextNet]_vars

NoRequestTwice == \A a, b \in DOMAIN requests : a # b => requests[a] # requests[b]

\* the GET requests of the run are as many as its calls of fetchHTML
OneGetPerCall ==
    Cardinality({j \in DOMAIN requests : requests[j].method = "GET"})
        = (IF pc = "idle" THEN 0 ELSE 1) + Len(htmlPromiseList)

\* a fetch that has failed keeps its failure, and the step in which a fetch
\* fails sends no request
FailureIsFinal ==
    /\ isFailure(htmlResponse) => (htmlResponse' = htmlResponse /\ requests' = requests)
    /\ \A j \in DOMAIN htmlPromiseList :
          /\ isFailure(htmlPromiseList[j]) => htmlPromiseList'[j] = htmlPromiseList[j]
          /\ (htmlPromiseList[j].tag = "pending" /\ isFailure(htmlPromiseList'[j])) =>
                requests' = requests

\* C24: within a Thread.fetch run every call of fetchHTML has sent exactly
\* one request, a fetch that failed stays failed and is not sent again, and
\* no URL, so no page index, is requested twice, before or after a failure.
C24_NoRetry ==
    /\ [](NoRequestTwice /\ OneGetPerCall)
    /\ [][FailureIsFinal]_vars

\* C24 witness: two pages were requested, page 1 failed while page 2 was
\* outstanding, page 2 settled afterwards, and the run holds one request for
\* each of the two pages.
C24_Witness ==
    /\ pc = "failed"
    /\ Len(htmlPromiseList) = 2
    /\ firstSettled = 1
    /\ isFailure(htmlPromiseList[1])
    /\ htmlPromiseList[2].tag # "pending"
    /\ requests = <<GetRequest(ThreadUrl), PostRequest(PostsNumberUrl, PostsPerPage),
                    GetRequest(PageUrl(1)), GetRequest(PageUrl(2))>>

\* C23: a call of fetchHTML ends in a Result and never raises: Success of
\* the html when the GET succeeded with an HTML content type, Failure of
\* UnexpectedResponseContentType when it succeeded with another one, and the
\* Failure of GenericAxiosError of fetchGETResponse when the GET failed.
C23_AlwaysAResult ==
    (npc = "done" /\ ncall.fn = "fetchHTML") =>
        /\ nret.tag \in {"success", "failure"}
        /\ IF ~nax.ok
           THEN /\ isFailure(nret)
                /\ nret.err = [name |-> "GenericAxiosError", id |-> 1, url |-> ncall.url]
           ELSE IF nax.ctype = "text/html; charset=utf-8"
           THEN /\ isSuccess(nret)
                /\ nret.value = nax.data
           ELSE /\ isFailure(nret)
                /\ nret.err.name = "UnexpectedResponseContentType"

----------------------------------------------------------------------------
(* authenticate and getF95Token, called by several callers at once         *)

LoginUrl == [kind |-> "login", n |-> 0]

InvalidF95Token == [name |-> "InvalidF95Token", id |-> 0, url |-> NoUrl]

\* credentials.token: not fetched yet, or fetched
CredentialTokens == {"", "valid"}

\* new LoginResult(success, message)
LoginResult(result, message) ==
    [kind |-> "loginResult", success |-> result, message |-> message]

\* What axios.post(secureURL, params, config) settles with: the page after
\* the login, with the error message it shows or with none, or a throw.
LoginOutcomes ==
    {[ok |-> FALSE, errorMessage |-> ""],
     [ok |-> TRUE, errorMessage |-> ""],
     [ok |-> TRUE, errorMessage |-> "Incorrect password"]}

\* the try and the catch block of authenticate
LoginResultOf(out) ==
    IF ~out.ok THEN LoginResult(FALSE, "Error while authenticating")
    ELSE IF out.errorMessage = "" THEN LoginResult(TRUE, "Authentication successful")
    ELSE LoginResult(FALSE, out.errorMessage)

\* What the GET of the login page settles with: it throws, or it answers
\* with the page that holds the token.
TokenOutcomes ==
    {[ok |-> FALSE, ctype |-> "", data |-> EmptyHtml],
     [ok |-> TRUE, ctype |-> HtmlContentType, data |-> EmptyHtml]}

\* getF95Token once fetchGETResponse has settled
TokenResultOf(ax) ==
    LET response == fetchGETResponse(LoginUrl, ax)
    IN  IF isSuccess(response) THEN [kind |-> "token", value |-> "valid"]
        ELSE Thrown(response.err)

\* the calls whose request to the platform is outstanding
InProgress == {c \in Callers : apc[c] \in {"posting", "getting"}}

InitAuth ==
    /\ ThreadIdle
    /\ QueryIdle
    /\ SearchIdle
    /\ PostIdle
    /\ RatingIdle
    /\ NetIdle
    /\ AuthIdle

\* authenticate(credentials, force) up to the await of axios.post
Authenticate(c) ==
    /\ apc[c] = "idle"
    /\ \E t \in CredentialTokens, force \in BOOLEAN :
        /\ acall' = [acall EXCEPT ![c] = [fn |-> "authenticate", token |-> t, force |-> force]]
        /\ IF t = ""
           THEN /\ aret' = [aret EXCEPT ![c] = Thrown(InvalidF95Token)]
                /\ apc' = [apc EXCEPT ![c] = "done"]
           ELSE /\ apc' = [apc EXCEPT ![c] = "posting"]
                /\ UNCHANGED aret
    /\ UNCHANGED <<threadVars, queryVars, searchVars, postVars, ratingVars, netVars>>

\* axios.post has settled and authenticate returns its LoginResult
Authenticated(c) ==
    /\ apc[c] = "posting"
    /\ \E out \in LoginOutcomes :
        aret' = [aret EXCEPT ![c] = LoginResultOf(out)]
    /\ apc' = [apc EXCEPT ![c] = "done"]
    /\ UNCHANGED acall
    /\ UNCHANGED <<threadVars, queryVars, searchVars, postVars, ratingVars, netVars>>

\* getF95Token() up to the await of fetchGETResponse
GetF95Token(c) ==
    /\ apc[c] = "idle"
    /\ acall' = [acall EXCEPT ![c] = [fn |-> "getF95Token", token |-> "", force |-> FALSE]]
    /\ apc' = [apc EXCEPT ![c] = "getting"]
    /\ UNCHANGED aret
    /\ UNCHANGED <<threadVars, queryVars, searchVars, postVars, ratingVars, netVars>>

\* fetchGETResponse has settled and getF95Token returns the token, or throws
TokenFetched(c) ==
    /\ apc[c] = "getting"
    /\ \E ax \in TokenOutcomes :
        aret' = [aret EXCEPT ![c] = TokenResultOf(ax)]
    /\ apc' = [apc EXCEPT ![c] = "done"]
    /\ UNCHANGED acall
    /\ UNCHANGED <<threadVars, queryVars, searchVars, postVars, ratingVars, netVars>>

NextAuth ==
    \E c \in Callers :
        \/ Authenticate(c)
        \/ Authenticated(c)
        \/ GetF95Token(c)
        \/ TokenFetched(c)

SpecAuth == InitAuth /\ [][NextAuth]_vars

\* C26: of the calls of authenticate and getF95Token started at the same
\* time at most one has its request outstanding: a second one does not
\* begin its request before the first has finished.
C26_OneAtATime == Cardinality(InProgress) <= 1

----------------------------------------------------------------------------
(* Vocabulary of the properties                                            *)

\* the number of pages the fan-out loop runs over
PageCount == IF pages = NaN THEN 0 ELSE pages

\* the requests of the fan-out, in issue order
PageRequests == SubSeq(requests, 3, Len(requests))

\* the posts parsed from pages 1..n of a list of settled page results
RECURSIVE PagePosts(_, _)
PagePosts(rs, n) ==
    IF n = 0 THEN <<>> ELSE PagePosts(rs, n - 1) \o parsePostsInPage(rs[n].value)

RECURSIVE SumOfPageLengths(_, _)
SumOfPageLengths(rs, n) ==
    IF n = 0 THEN 0 ELSE SumOfPageLengths(rs, n - 1) + Len(rs[n].value.posts)

CountIn(s, x) == Cardinality({j \in DOMAIN s : s[j] = x})
AllPosts == {Post(id) : id \in PostIds}
IsPermutation(s, t) == \A x \in AllPosts : CountIn(s, x) = CountIn(t, x)

StrictlyAscending(s) == \A j \in 1..(Len(s) - 1) : s[j].id < s[j + 1].id
Ascending(s)         == \A j \in 1..(Len(s) - 1) : s[j].id <= s[j + 1].id
DistinctIds(s)       == \A a, b \in DOMAIN s : a # b => s[a].id # s[b].id

AllSettled(ps) == \A j \in 1..Len(ps) : ps[j].tag # "pending"
AllSucceeded(ps) == \A j \in 1..Len(ps) : isSuccess(ps[j])
FailedPages(ps) == {j \in 1..Len(ps) : isFailure(ps[j])}
Lowest(S) == CHOOSE m \in S : \A x \in S : m <= x

\* the fan-out has been issued in full
FannedOut == pc \in {"awaitAll", "scrape", "done"} \/ (pc = "failed" /\ isSuccess(postResponse))

----------------------------------------------------------------------------
(* Properties of the assembled post list                                   *)

\* C1 (as stated): whenever Thread.fetch has succeeded, every post of the
\* stored list has an ID strictly greater than the ID of the post before it.
C1_StrictlyAscendingAlways == pc = "done" => StrictlyAscending(posts.list)

\* C1 (amended): whenever Thread.fetch has succeeded, the stored list is in
\* ascending order of post ID (no post has a smaller ID than the post before
\* it), for every completion order; it is strictly ascending whenever the
\* posts parsed from the N pages have pairwise distinct IDs.
C1_SortedByAscendingId ==
    pc = "done" =>
        /\ Ascending(posts.list)
        /\ DistinctIds(PagePosts(responses, Len(responses))) =>
               StrictlyAscending(posts.list)

\* C1 witness: a two- or three-page thread whose pages carry distinct IDs,
\* not in ascending order as concatenated, and whose first page did not
\* settle first.
C1_Witness ==
    /\ pc = "done"
    /\ Len(responses) >= 2
    /\ firstSettled > 1
    /\ DistinctIds(fetchedPosts)
    /\ ~Ascending(fetchedPosts)
    /\ Len(posts.list) >= 2

C3_AllOrNothing ==
    posts.set =>
        /\ pc = "done"
        /\ isSuccess(htmlResponse)
        /\ isSuccess(postResponse)
        /\ Len(htmlPromiseList) = PageCount
        /\ AllSucceeded(htmlPromiseList)
        /\ IsPermutation(posts.list, PagePosts(htmlPromiseList, PageCount))

\* C3 witness: a list assembled from three pages, the last of them non-empty.
C3_Witness ==
    /\ posts.set
    /\ PageCount = 3
    /\ Len(htmlPromiseList[3].value.posts) > 0
    /\ Len(htmlPromiseList[1].value.posts) > 0

\* C4: when the run has succeeded, the stored list is a permutation of the
\* concatenation of the per-page post sequences and its length is the sum
\* of the page lengths.
C4_PermutationOfPages ==
    pc = "done" =>
        /\ IsPermutation(posts.list, PagePosts(responses, Len(responses)))
        /\ Len(posts.list) = SumOfPageLengths(responses, Len(responses))

\* C4 witness: three pages of unequal lengths, page 3 settled first.
C4_Witness ==
    /\ pc = "done"
    /\ Len(responses) = 3
    /\ firstSettled = 3
    /\ Len(responses[1].value.posts) = 1
    /\ Len(responses[2].value.posts) = 1
    /\ Len(responses[3].value.posts) = 0
    /\ Len(posts.list) = 2

----------------------------------------------------------------------------
(* Properties of the fan-out and of the order of the steps                 *)

\* C6: the requests of the fan-out are, in issue order, one GET of page-1,
\* page-2, ... without gap or repetition, never beyond page-N, and once the
\* fan-out has been issued they are exactly the N pages 1..N.
C6_OneFetchPerPage ==
    /\ \A j \in 1..Len(PageRequests) : PageRequests[j] = GetRequest(PageUrl(j))
    /\ Len(PageRequests) <= PageCount
    /\ Len(htmlPromiseList) = Len(PageRequests)
    /\ FannedOut => Len(PageRequests) = PageCount

\* C6 witness: the fan-out of a three-page thread has been issued and has
\* settled: three requests, pages 1, 2 and 3.
C6_Witness ==
    /\ pc = "scrape"
    /\ pages = 3
    /\ PageRequests = <<GetRequest(PageUrl(1)), GetRequest(PageUrl(2)), GetRequest(PageUrl(3))>>

\* C7: a page fetch is started only while no page fetch has settled, and the
\* run is in its scrape loop or beyond only when all N page fetches have
\* been issued and have settled.
C7_FanOutBeforeWait ==
    /\ [](pc \in {"scrape", "done"} =>
            Len(htmlPromiseList) = PageCount /\ AllSettled(htmlPromiseList))
    /\ [][Len(htmlPromiseList') > Len(htmlPromiseList) =>
            \A j \in 1..Len(htmlPromiseList) : htmlPromiseList[j].tag = "pending"]_vars

\* C7 witness: all three page fetches of a three-page thread are
\* outstanding at once.
C7_Witness ==
    /\ pc = "awaitAll"
    /\ Len(htmlPromiseList) = 3
    /\ \A j \in 1..3 : htmlPromiseList[j].tag = "pending"

\* C8: the requests of a run are, in issue order, the GET of the first
\* page, then one POST of the pagination size 100, then GETs of pages only;
\* the POST is issued only after the first page was fetched successfully,
\* a page is requested only after the POST succeeded, and the post list is
\* stored only after all page fetches were issued and have settled.
C8_StepOrder ==
    /\ pc = "idle" => requests = <<>>
    /\ Len(requests) >= 1 => requests[1] = GetRequest(ThreadUrl)
    /\ Len(requests) >= 2 =>
          /\ requests[2] = [method |-> "POST", url |-> PostsNumberUrl, n |-> 100]
          /\ isSuccess(htmlResponse)
    /\ \A j \in 3..Len(requests) :
          /\ requests[j].method = "GET"
          /\ requests[j].url.kind = "page"
          /\ isSuccess(postResponse)
    /\ posts.set => Len(requests) = 2 + PageCount /\ AllSettled(htmlPromiseList)

\* C8 witness: a completed run over three pages, five requests in all.
C8_Witness ==
    /\ pc = "done"
    /\ Len(requests) = 5
    /\ posts.set

\* C9: when the fetch of the first page has failed, the run has failed with
\* exactly the failure value of that fetch, and the only request ever issued
\* is the one GET of the first page.
C9_FirstPageFailure ==
    isFailure(htmlResponse) =>
        /\ pc = "failed"
        /\ thrown = htmlResponse.err
        /\ thrown \in {GenericAxiosError(ThreadUrl), UnexpectedResponseContentType}
        /\ requests = <<GetRequest(ThreadUrl)>>
        /\ ~posts.set

\* C9 witness: the first page came back with a content type other than HTML.
C9_Witness ==
    /\ pc = "failed"
    /\ isFailure(htmlResponse)
    /\ thrown = UnexpectedResponseContentType

C29_AtLeastOnePageFetch ==
    pc = "done" =>
        /\ Len(htmlPromiseList) >= 1
        /\ \E j \in 1..Len(requests) : requests[j] = GetRequest(PageUrl(1))

====
